---- MODULE Spec2Model ----
(***************************************************************************)
(* CardioGuard ESP32 Holter ECG simulator (esp32-holter-sim/src/main.cpp). *)
(*                                                                         *)
(* The firmware is the Arduino superloop loop() plus the two BLE server    *)
(* callbacks, which the BLE stack runs on its own task: onConnect and      *)
(* onDisconnect write deviceConnected at any moment, also in the middle    *)
(* of an iteration of loop().  loop() is therefore cut into one step per   *)
(* read of deviceConnected; everything between two reads is one step.     *)
(*                                                                         *)
(* Representation.  float values are fixed-point integers with two         *)
(* decimals: heartRateBPM in 1/100 BPM, rrIntervalSamples and nextRPeakAt  *)
(* in 1/100 sample.  Waveform voltages are integers in microvolts.  The    *)
(* clock is millis() in ms; it stays far below 2^32, and sampleIndex stays *)
(* below 2^32 as well.  The unsigned differences now - lastX are taken by  *)
(* Elapsed, which keeps the wrap of a difference below zero.               *)
(***************************************************************************)
EXTENDS Integers, Sequences, FiniteSets, TLC

\* ------------------------------------------------------------- constants
SAMPLE_RATE == 250
SAMPLES_PER_PACKET == 8
PACKET_INTERVAL_MS == 32
BATTERY_START_LEVEL == 95
BATTERY_DRAIN_INTERVAL_MS == 120000
ARRHYTHMIA_DURATION_MS == 10000
BATTERY_FLOOR == 5
READVERTISE_DELAY_MS == 100
LED_PULSE_MS == 50
POT_INTERVAL_MS == 500
POT_HYSTERESIS == 50
POT_MAX == 4095
BPM_STEP == 1000
BPM_MIN == 4000
BPM_MAX == 18000
BPM_DEFAULT == 7200
UINT16 == 65536

\* ---------------------------------------------------------------- bounds
\* events of the environment in one run: a callback of the BLE stack, an
\* advance of the clock between two iterations, an action of the operator
\* (a turn of the potentiometer, a press of the button, a console byte)
MaxEvents == 4
\* the small advance of the clock (ms); the large one is the power interval
FineStep == 16

VARIABLES
  \* globals of main.cpp
  deviceConnected, oldDeviceConnected, sequenceNumber, batteryLevel,
  sampleIndex, heartRateBPM, rrIntervalSamples, nextRPeakAt,
  lastPacketTime, lastBatteryTime, lastLEDTime, ledState,
  arrhythmiaMode, arrhythmiaStart,
  \* function statics
  lastPotValue, lastPotRead,
  \* loop(): its locals `now` and `cmd` ("": no byte read), the value of
  \* digitalRead(BUTTON_PIN) == LOW it last read, its position
  now, cmd, button, pc,
  \* collaborators: millis(), the two characteristics, the advertiser
  clock, ecgChar, ecgNotifies, batChar, batNotifies, adCalls,
  \* history: a connection whose counter reset is outstanding, a lost
  \* connection whose re-advertisement is outstanding, time spent in delay(),
  \* environment events so far, and <<sequence number, first sample index>>
  \* of the first packet published since the last onConnect (<<>>: none yet),
  \* packets published since the last reset of the session counters
  resetDue, advertDue, blockedMs, events, firstPacket, packetsSinceReset

progVars == <<deviceConnected, oldDeviceConnected, sequenceNumber, batteryLevel,
              sampleIndex, heartRateBPM, rrIntervalSamples, nextRPeakAt,
              lastPacketTime, lastBatteryTime, lastLEDTime, ledState,
              arrhythmiaMode, arrhythmiaStart, lastPotValue, lastPotRead,
              now, cmd, button, pc>>
envVars == <<clock, ecgChar, ecgNotifies, batChar, batNotifies, adCalls>>
histVars == <<resetDue, advertDue, blockedMs, events, firstPacket,
              packetsSinceReset>>
vars == <<progVars, envVars, histVars>>

\* ------------------------------------------------------- pure functions
Abs(x) == IF x < 0 THEN -x ELSE x

\* C truncation toward zero of a / b, b > 0 (a float-to-integer cast)
Trunc(a, b) == IF a < 0 THEN -((-a) \div b) ELSE a \div b

\* a - b on unsigned long.  A difference below zero wraps to 2^32 + a - b,
\* which is beyond every interval of the program and beyond the integers of
\* the checker: it is held at their largest value.
Elapsed(a, b) == IF a >= b THEN a - b ELSE 2147483647

\* mvToADC: (int16_t)(mv / 0.00286), the voltage given in microvolts
mvToADC(uv) == Trunc(uv * 100, 286)

\* rrIntervalSamples = (60.0 / heartRateBPM) * SAMPLE_RATE, in 1/100 sample
RRInterval(bpm) == (60 * SAMPLE_RATE * 100 * 100) \div bpm

\* mutant: the low byte taken with the remainder of C, x % 256
LowByte_Remainder(x) == IF x < 0 THEN -((-x) % 256) ELSE x % 256

\* x & 0xFF and (x >> 8) & 0xFF of a 16-bit value, signed or unsigned
LowByte(x) == x % 256
HighByte(x) == (x \div 256) % 256

\* mutant: the counter kept in a wider integer
NextSeq_NoWrap(seq) == seq + 1

\* sequenceNumber++ on a uint16_t
NextSeq(seq) == (seq + 1) % UINT16

\* the packet sendECGPacket builds: header, then each sample as int16 LE
RECURSIVE SampleBytes(_)
SampleBytes(adc) ==
  IF adc = <<>> THEN <<>>
  ELSE <<LowByte(Head(adc)), HighByte(Head(adc))>> \o SampleBytes(Tail(adc))

PacketBytes(seq, adc) ==
  <<LowByte(seq), HighByte(seq),
    LowByte(SAMPLES_PER_PACKET), HighByte(SAMPLES_PER_PACKET)>>
  \o SampleBytes(adc)

\* mutant: sampleIndex++ skipped by the sample that crosses the boundary
BeatStep_PeakKeepsIndex(b, rr, arr, r1, r2, t) ==
  LET idx == b.idx + 1
      newRR == rr + Trunc(r1 * rr, 1000)
                  + (IF arr THEN Trunc(r2 * rr, 1000) ELSE 0)
  IN IF idx >= b.next \div 100
     THEN [idx |-> b.idx, next |-> idx * 100 + newRR, led |-> TRUE, ledAt |-> t]
     ELSE [b EXCEPT !.idx = idx]

\* mutant: the variations taken in tenths, random() / 100.0
BeatStep_WideVariation(b, rr, arr, r1, r2, t) ==
  LET idx == b.idx + 1
      newRR == rr + Trunc(r1 * rr, 100)
                  + (IF arr THEN Trunc(r2 * rr, 100) ELSE 0)
  IN IF idx >= b.next \div 100
     THEN [idx |-> idx, next |-> idx * 100 + newRR, led |-> TRUE, ledAt |-> t]
     ELSE [b EXCEPT !.idx = idx]

\* One pass of the sample loop of sendECGPacket after the sample is written:
\* sampleIndex++, then the R-peak test.  b is [idx, next, led, ledAt];
\* r1, r2 are the random(-50,50) and random(-200,200) draws, t is millis().
BeatStep(b, rr, arr, r1, r2, t) ==
  LET idx == b.idx + 1
      newRR == rr + Trunc(r1 * rr, 1000)
                  + (IF arr THEN Trunc(r2 * rr, 1000) ELSE 0)
  IN IF idx >= b.next \div 100
     THEN [idx |-> idx, next |-> idx * 100 + newRR, led |-> TRUE, ledAt |-> t]
     ELSE [b EXCEPT !.idx = idx]

RECURSIVE BeatLoop(_, _, _, _, _, _, _)
BeatLoop(i, b, rr, arr, r1, r2, t) ==
  IF i = 0 THEN b
  ELSE BeatLoop(i - 1, BeatStep(b, rr, arr, r1, r2, t), rr, arr, r1, r2, t)

\* ---------------------------------------------------------------- inputs
\* generateECGSample is a sum of Gaussians, a sinusoid and random() noise:
\* the batches of eight voltages (microvolts) it is taken to return.  The
\* second holds the int16 ends after mvToADC.
WaveBatches ==
  { <<150, -100, 1200, -250, 300, 30, 0, -15>>,
    <<286, -572, 93714, -93717, 0, -3, 2, 729>> }
\* random(-50, 50) and random(-200, 200): the ends
Draws5 == {-50, 49}
Draws20 == {-200, 199}
\* analogRead(POT_PIN): 30 is within the hysteresis of 0
PotReadings == {0, 30, POT_MAX}
\* the reading while the operator leaves the potentiometer alone
PotRest(last) == IF last = -1 THEN 0 ELSE last
\* Serial.read(): the commands that write state, and "" for no byte
SerialBytes == {"a", "r", "+", "-", ""}

SETUP_DELAY_MS == 1000 + 100 + 100

\* mutant: the hysteresis without the exception of the first poll
PotIgnored_NoFirst(pot, last) == Abs(pot - last) < POT_HYSTERESIS

\* updateHeartRateFromPot(), line 350: the reading is within the hysteresis
PotIgnored(pot, last) == Abs(pot - last) < POT_HYSTERESIS /\ last # -1

\* lines 357-360: 0..4095 -> 40..180 BPM, smoothed 0.9 / 0.1
PotBPM(bpm, pot) ==
  LET newBPM == BPM_MIN + (pot * (BPM_MAX - BPM_MIN)) \div POT_MAX
  IN (bpm * 9 + newBPM) \div 10

\* mutant: '+' without its min(180, ...)
RateUp_NoClamp(bpm) == bpm + BPM_STEP

\* lines 511-520: the rate commands
RateUp(bpm) == IF bpm + BPM_STEP > BPM_MAX THEN BPM_MAX ELSE bpm + BPM_STEP
RateDown(bpm) == IF bpm - BPM_STEP < BPM_MIN THEN BPM_MIN ELSE bpm - BPM_STEP

\* mutant: case 'a' without its break, falling through into case 'r'
BatteryAfter_Fallthrough(c, level) ==
  IF c \in {"a", "r"} THEN BATTERY_START_LEVEL ELSE level

\* lines 506-510: the power level after console byte c
BatteryAfter(c, level) == IF c = "r" THEN BATTERY_START_LEVEL ELSE level

\* ------------------------------------------------------------------ Init
\* the globals' initialisers and setup()
Init ==
  /\ deviceConnected = FALSE /\ oldDeviceConnected = FALSE
  /\ sequenceNumber = 0 /\ batteryLevel = BATTERY_START_LEVEL
  /\ sampleIndex = 0 /\ heartRateBPM = BPM_DEFAULT
  /\ rrIntervalSamples = RRInterval(BPM_DEFAULT)
  /\ nextRPeakAt = RRInterval(BPM_DEFAULT)
  /\ lastPacketTime = 0 /\ lastBatteryTime = 0 /\ lastLEDTime = 0
  /\ ledState = FALSE /\ arrhythmiaMode = FALSE /\ arrhythmiaStart = 0
  /\ lastPotValue = -1 /\ lastPotRead = 0
  /\ now = 0 /\ cmd = "" /\ button = FALSE /\ pc = "tick"
  /\ clock = SETUP_DELAY_MS
  /\ ecgChar = <<>> /\ ecgNotifies = 0
  /\ batChar = BATTERY_START_LEVEL /\ batNotifies = 0 /\ adCalls = 1
  /\ resetDue = FALSE /\ advertDue = FALSE /\ blockedMs = 0
  /\ events = 0 /\ firstPacket = <<>> /\ packetsSinceReset = 0

\* The device some hours after setup(), between two iterations of loop(),
\* k packets into a session: the operator has left the inputs alone, so the
\* first poll alone set the rate; the power level has drained to level; the
\* next R peak is peak samples ahead; an emission is due.
SessionState(k, level, peak) ==
  /\ deviceConnected = TRUE /\ oldDeviceConnected = TRUE
  /\ sequenceNumber = k % UINT16 /\ batteryLevel = level
  /\ sampleIndex = k * SAMPLES_PER_PACKET
  /\ heartRateBPM = PotBPM(BPM_DEFAULT, PotRest(-1))
  /\ rrIntervalSamples = RRInterval(PotBPM(BPM_DEFAULT, PotRest(-1)))
  /\ nextRPeakAt = (k * SAMPLES_PER_PACKET + peak) * 100 + 50
  /\ clock = 100 * BATTERY_DRAIN_INTERVAL_MS + FineStep
  /\ now = clock - FineStep
  /\ lastPacketTime = clock - PACKET_INTERVAL_MS
  /\ lastBatteryTime = clock - FineStep
  /\ lastLEDTime = clock - 10 * LED_PULSE_MS
  /\ ledState = FALSE /\ arrhythmiaMode = FALSE /\ arrhythmiaStart = 0
  /\ lastPotValue = PotRest(-1) /\ lastPotRead = clock - FineStep
  /\ cmd = "" /\ button = FALSE /\ pc = "tick"
  /\ ecgChar = PacketBytes((k - 1) % UINT16,
                           [i \in 1..SAMPLES_PER_PACKET |-> 0])
  /\ ecgNotifies = k
  /\ batChar = level /\ batNotifies = 0 /\ adCalls = 1
  /\ resetDue = FALSE /\ advertDue = FALSE /\ blockedMs = 0
  /\ events = 0 /\ firstPacket = <<0, 0>> /\ packetsSinceReset = k

\* two packets before the sequence counter wraps, one decay above the
\* floor, five samples before an R peak
InitSession == SessionState(UINT16 - 2, BATTERY_FLOOR + 1, 5)

\* the rate after the operator typed the rate command c n times
RECURSIVE RateAfter(_, _, _)
RateAfter(c, n, bpm) ==
  IF n = 0 THEN bpm
  ELSE RateAfter(c, n - 1, IF c = "+" THEN RateUp(bpm) ELSE RateDown(bpm))

\* the packets of a session that end before its first R peak, which the
\* reset of the connection put at rr
PacketsBeforeBeat(rr) == ((rr \div 100) - 1) \div SAMPLES_PER_PACKET

\* The device a second after setup(), between two iterations of loop(): the
\* first tick polled the potentiometer at rest, the operator typed the rate
\* command c n times, a central connected in that tick and the session has
\* emitted every packet that ends before its first R peak, one per
\* PACKET_INTERVAL_MS; the next emission is not yet due.
RateState(c, n) ==
  LET bpm == RateAfter(c, n, PotBPM(BPM_DEFAULT, PotRest(-1)))
      k == PacketsBeforeBeat(RRInterval(bpm))
      last == SETUP_DELAY_MS + (k - 1) * PACKET_INTERVAL_MS
      polls == (last - SETUP_DELAY_MS) \div (16 * PACKET_INTERVAL_MS)
  IN /\ deviceConnected = TRUE /\ oldDeviceConnected = TRUE
     /\ sequenceNumber = k /\ batteryLevel = BATTERY_START_LEVEL
     /\ sampleIndex = k * SAMPLES_PER_PACKET
     /\ heartRateBPM = bpm
     /\ rrIntervalSamples = RRInterval(bpm)
     /\ nextRPeakAt = RRInterval(bpm)
     /\ clock = last + FineStep
     /\ now = last
     /\ lastPacketTime = last
     /\ lastBatteryTime = 0 /\ lastLEDTime = 0
     /\ ledState = FALSE /\ arrhythmiaMode = FALSE /\ arrhythmiaStart = 0
     /\ lastPotValue = PotRest(-1)
     /\ lastPotRead = SETUP_DELAY_MS + polls * 16 * PACKET_INTERVAL_MS
     /\ cmd = "" /\ button = FALSE /\ pc = "tick"
     /\ ecgChar = PacketBytes(k - 1, [i \in 1..SAMPLES_PER_PACKET |-> 0])
     /\ ecgNotifies = k
     /\ batChar = BATTERY_START_LEVEL /\ batNotifies = 0 /\ adCalls = 1
     /\ resetDue = FALSE /\ advertDue = FALSE /\ blockedMs = 0
     /\ events = 0 /\ firstPacket = <<0, 0>> /\ packetsSinceReset = k

\* one '+' below the highest rate, and one '-' above the lowest
InitRate == RateState("+", 11) \/ RateState("-", 2)

\* ----------------------------------------------------- BLE server callbacks
\* MyServerCallbacks::onConnect, run by the BLE task when a central connects
OnConnect ==
  /\ ~deviceConnected
  /\ events < MaxEvents
  /\ events' = events + 1
  /\ deviceConnected' = TRUE
  /\ resetDue' = TRUE
  /\ firstPacket' = <<>>
  /\ UNCHANGED <<oldDeviceConnected, sequenceNumber, batteryLevel, sampleIndex,
                 heartRateBPM, rrIntervalSamples, nextRPeakAt, lastPacketTime,
                 lastBatteryTime, lastLEDTime, ledState, arrhythmiaMode,
                 arrhythmiaStart, lastPotValue, lastPotRead, now, cmd,
                 button, pc>>
  /\ UNCHANGED envVars
  /\ UNCHANGED <<advertDue, blockedMs, packetsSinceReset>>

\* MyServerCallbacks::onDisconnect
OnDisconnect ==
  /\ deviceConnected
  /\ events < MaxEvents
  /\ events' = events + 1
  /\ deviceConnected' = FALSE
  /\ advertDue' = TRUE
  /\ UNCHANGED <<oldDeviceConnected, sequenceNumber, batteryLevel, sampleIndex,
                 heartRateBPM, rrIntervalSamples, nextRPeakAt, lastPacketTime,
                 lastBatteryTime, lastLEDTime, ledState, arrhythmiaMode,
                 arrhythmiaStart, lastPotValue, lastPotRead, now, cmd,
                 button, pc>>
  /\ UNCHANGED envVars
  /\ UNCHANGED <<resetDue, blockedMs, firstPacket, packetsSinceReset>>

\* ------------------------------------------------------------------ clock
\* millis() moves on between two iterations of loop()
\* the advances: a short one, the power interval and, during a fault
\* window, one that ends a short advance before the end of the window
ClockSteps ==
  {FineStep, BATTERY_DRAIN_INTERVAL_MS}
  \cup (IF arrhythmiaMode THEN {ARRHYTHMIA_DURATION_MS - FineStep} ELSE {})

AdvanceClock ==
  /\ pc = "tick"
  /\ events < MaxEvents
  /\ events' = events + 1
  /\ \E d \in ClockSteps : clock' = clock + d
  /\ UNCHANGED progVars
  /\ UNCHANGED <<ecgChar, ecgNotifies, batChar, batNotifies, adCalls>>
  /\ UNCHANGED <<resetDue, advertDue, blockedMs, firstPacket,
                 packetsSinceReset>>

\* ------------------------------------------------------------------- loop
\* mutant: the counters reset on either edge of the connection
NewConnection_AnyEdge == deviceConnected # oldDeviceConnected

\* mutant: delay(10) for delay(100)
ReadvertiseDelay_Short == READVERTISE_DELAY_MS \div 10

\* the conditions of lines 417 and 425
NewConnection == deviceConnected /\ ~oldDeviceConnected
LostConnection == ~deviceConnected /\ oldDeviceConnected

\* delay(100) of line 432
ReadvertiseDelay == READVERTISE_DELAY_MS

\* mutant: the first R peak of a session put at sample 0
FirstPeakAt_Zero(rr) == 0

\* line 421: the first R peak of a session, one interval after its start
FirstPeakAt(rr) == rr

\* loop(), lines 411-421: now = millis(), and the new-connection test with
\* the reset of the session counters
LoopTick ==
  /\ pc = "tick"
  /\ now' = clock
  /\ cmd' = ""
  /\ button' = FALSE
  /\ IF NewConnection
     THEN /\ sequenceNumber' = 0
          /\ sampleIndex' = 0
          /\ nextRPeakAt' = FirstPeakAt(rrIntervalSamples)
          /\ resetDue' = FALSE
          /\ packetsSinceReset' = 0
          /\ pc' = "latch"
     ELSE /\ pc' = "disc"
          /\ UNCHANGED <<sequenceNumber, sampleIndex, nextRPeakAt, resetDue,
                         packetsSinceReset>>
  /\ UNCHANGED <<deviceConnected, oldDeviceConnected, batteryLevel,
                 heartRateBPM, rrIntervalSamples, lastPacketTime,
                 lastBatteryTime, lastLEDTime, ledState, arrhythmiaMode,
                 arrhythmiaStart, lastPotValue, lastPotRead>>
  /\ UNCHANGED envVars
  /\ UNCHANGED <<advertDue, blockedMs, events, firstPacket>>

\* line 423, after Serial.println: oldDeviceConnected = deviceConnected
LoopLatch ==
  /\ pc = "latch"
  /\ oldDeviceConnected' = deviceConnected
  /\ pc' = "disc"
  /\ UNCHANGED <<deviceConnected, sequenceNumber, batteryLevel, sampleIndex,
                 heartRateBPM, rrIntervalSamples, nextRPeakAt, lastPacketTime,
                 lastBatteryTime, lastLEDTime, ledState, arrhythmiaMode,
                 arrhythmiaStart, lastPotValue, lastPotRead, now, cmd,
                 button>>
  /\ UNCHANGED envVars
  /\ UNCHANGED histVars

\* lines 425-435: the lost-connection test, delay(100), startAdvertising()
LoopDisconnected ==
  /\ pc = "disc"
  /\ IF LostConnection
     THEN /\ oldDeviceConnected' = FALSE
          /\ clock' = clock + ReadvertiseDelay
          /\ blockedMs' = blockedMs + ReadvertiseDelay
          /\ adCalls' = adCalls + 1
          /\ advertDue' = FALSE
     ELSE UNCHANGED <<oldDeviceConnected, clock, blockedMs, adCalls, advertDue>>
  /\ pc' = "ecg"
  /\ UNCHANGED <<deviceConnected, sequenceNumber, batteryLevel, sampleIndex,
                 heartRateBPM, rrIntervalSamples, nextRPeakAt, lastPacketTime,
                 lastBatteryTime, lastLEDTime, ledState, arrhythmiaMode,
                 arrhythmiaStart, lastPotValue, lastPotRead, now, cmd,
                 button>>
  /\ UNCHANGED <<ecgChar, ecgNotifies, batChar, batNotifies>>
  /\ UNCHANGED <<resetDue, events, firstPacket, packetsSinceReset>>

\* sendECGPacket(): the packet from the eight voltages wave, the sample
\* loop with its R-peak test, sequenceNumber++, setValue and notify.  dt is
\* the time since the top of loop() at the millis() of line 263.
sendECGPacket(wave, r1, r2, dt) ==
  LET adc == [i \in 1..SAMPLES_PER_PACKET |-> mvToADC(wave[i])]
      b == BeatLoop(SAMPLES_PER_PACKET,
                    [idx |-> sampleIndex, next |-> nextRPeakAt,
                     led |-> ledState, ledAt |-> lastLEDTime],
                    rrIntervalSamples, arrhythmiaMode, r1, r2, clock + dt)
      beat == b.next # nextRPeakAt
  IN /\ beat \/ (dt = 0 /\ r1 = 49 /\ r2 = 199)
     /\ clock' = IF beat THEN clock + dt ELSE clock
     /\ sampleIndex' = b.idx
     /\ nextRPeakAt' = b.next
     /\ ledState' = b.led
     /\ lastLEDTime' = b.ledAt
     /\ sequenceNumber' = NextSeq(sequenceNumber)
     /\ ecgChar' = PacketBytes(sequenceNumber, adc)
     /\ ecgNotifies' = ecgNotifies + 1
     /\ firstPacket' = IF firstPacket = <<>>
                       THEN <<sequenceNumber, sampleIndex>> ELSE firstPacket
     /\ packetsSinceReset' = packetsSinceReset + 1

\* mutant: the emission task without the test of the connection
EmissionDue_Unconnected == Elapsed(now, lastPacketTime) >= PACKET_INTERVAL_MS

\* the condition of line 438
EmissionDue ==
  deviceConnected /\ Elapsed(now, lastPacketTime) >= PACKET_INTERVAL_MS

\* lines 438-448: the emission task
LoopEcg ==
  /\ pc = "ecg"
  /\ IF EmissionDue
     THEN /\ lastPacketTime' = now
          /\ \E wave \in WaveBatches, r1 \in Draws5, r2 \in Draws20,
                dt \in {0, FineStep} :
               sendECGPacket(wave, r1, r2, dt)
     ELSE UNCHANGED <<lastPacketTime, sampleIndex, nextRPeakAt, ledState,
                      lastLEDTime, sequenceNumber, ecgChar, ecgNotifies,
                      firstPacket, packetsSinceReset, clock>>
  /\ pc' = "bat"
  /\ UNCHANGED <<deviceConnected, oldDeviceConnected, batteryLevel,
                 heartRateBPM, rrIntervalSamples, lastBatteryTime,
                 arrhythmiaMode, arrhythmiaStart, lastPotValue, lastPotRead, now, cmd,
                 button>>
  /\ UNCHANGED <<batChar, batNotifies, adCalls>>
  /\ UNCHANGED <<resetDue, advertDue, blockedMs, events>>

\* mutant: the decay without its floor
Drain_NoFloor(level) == level - 1

\* line 453: one decay of the power level
Drain(level) == IF level > BATTERY_FLOOR THEN level - 1 ELSE level

\* the condition of line 451
PowerTickDue == Elapsed(now, lastBatteryTime) >= BATTERY_DRAIN_INTERVAL_MS

\* mutant: the power level published without the test of the connection
PowerPublish_Always == TRUE

\* the condition of line 455
PowerPublish == deviceConnected

\* lines 451-461: the power task
LoopBattery ==
  /\ pc = "bat"
  /\ IF PowerTickDue
     THEN /\ lastBatteryTime' = now
          /\ batteryLevel' = Drain(batteryLevel)
          /\ IF PowerPublish
             THEN /\ batChar' = batteryLevel'
                  /\ batNotifies' = batNotifies + 1
             ELSE UNCHANGED <<batChar, batNotifies>>
     ELSE UNCHANGED <<lastBatteryTime, batteryLevel, batChar, batNotifies>>
  /\ pc' = "tail"
  /\ UNCHANGED <<deviceConnected, oldDeviceConnected, sequenceNumber,
                 sampleIndex, heartRateBPM, rrIntervalSamples, nextRPeakAt,
                 lastPacketTime, lastLEDTime, ledState, arrhythmiaMode,
                 arrhythmiaStart, lastPotValue, lastPotRead, now, cmd,
                 button>>
  /\ UNCHANGED <<clock, ecgChar, ecgNotifies, adCalls>>
  /\ UNCHANGED histVars

\* mutant: the button restarts a fault window that is active
ButtonActivates_Restart(low, arr) == low

\* the conditions of lines 477-478: the button is down and fault mode is off
ButtonActivates(low, arr) == low /\ ~arr

\* mutant: the fault window tested with > for >=
FaultExpired_Strict(n, start) == Elapsed(n, start) > ARRHYTHMIA_DURATION_MS

\* the condition of line 486: the fault window that began at start is over
FaultExpired(n, start) == Elapsed(n, start) >= ARRHYTHMIA_DURATION_MS

\* lines 463-534: indicator timeout, operator-input poll, button, fault
\* window timeout and one console byte.  pot is analogRead(POT_PIN), low is
\* digitalRead(BUTTON_PIN) == LOW, c is the byte read ("": none available)
LoopTail ==
  /\ pc = "tail"
  /\ \E pot \in PotReadings, low \in BOOLEAN, c \in SerialBytes :
       LET poll == Elapsed(now, lastPotRead) >= POT_INTERVAL_MS
           upd == poll /\ ~PotIgnored(pot, lastPotValue)
           bpm1 == IF upd THEN PotBPM(heartRateBPM, pot) ELSE heartRateBPM
           press == ButtonActivates(low, arrhythmiaMode)
           arr1 == arrhythmiaMode \/ press
           start1 == IF press THEN now ELSE arrhythmiaStart
           arr2 == arr1 /\ ~FaultExpired(now, start1)
           bpm2 == CASE c = "+" -> RateUp(bpm1)
                     [] c = "-" -> RateDown(bpm1)
                     [] OTHER -> bpm1
           acts == (IF poll /\ pot # PotRest(lastPotValue) THEN 1 ELSE 0)
                   + (IF low THEN 1 ELSE 0) + (IF c # "" THEN 1 ELSE 0)
       IN /\ poll \/ pot = PotRest(lastPotValue)
          /\ events + acts <= MaxEvents
          /\ events' = events + acts
          /\ ledState' = (ledState /\ ~(Elapsed(now, lastLEDTime) > LED_PULSE_MS))
          /\ lastPotRead' = IF poll THEN now ELSE lastPotRead
          /\ lastPotValue' = IF poll THEN pot ELSE lastPotValue
          /\ heartRateBPM' = bpm2
          /\ rrIntervalSamples' = IF upd \/ c \in {"+", "-"}
                                  THEN RRInterval(bpm2) ELSE rrIntervalSamples
          /\ arrhythmiaMode' = IF c = "a" THEN ~arr2 ELSE arr2
          /\ arrhythmiaStart' = IF c = "a" THEN now ELSE start1
          /\ batteryLevel' = BatteryAfter(c, batteryLevel)
          /\ cmd' = c
          /\ button' = low
  /\ pc' = "tick"
  /\ UNCHANGED <<deviceConnected, oldDeviceConnected, sequenceNumber,
                 sampleIndex, nextRPeakAt, lastPacketTime, lastBatteryTime,
                 lastLEDTime, now>>
  /\ UNCHANGED envVars
  /\ UNCHANGED <<resetDue, advertDue, blockedMs, firstPacket,
                 packetsSinceReset>>

\* ---------------------------------------------------------- specification
Next ==
  \/ OnConnect
  \/ OnDisconnect
  \/ AdvanceClock
  \/ LoopTick
  \/ LoopLatch
  \/ LoopDisconnected
  \/ LoopEcg
  \/ LoopBattery
  \/ LoopTail

Spec == Init /\ [][Next]_vars

\* the same device, observed from the middle of a long session
SpecSession == InitSession /\ [][Next]_vars

\* the same device, observed a session after the operator set the rate
SpecRate == InitRate /\ [][Next]_vars

\* ---------------------------------------------------------------- claims
\* the inverse little-endian scheme of the parser: sequence number, sample
\* count and the samples as int16
U16(lo, hi) == lo + 256 * hi
I16(lo, hi) == IF U16(lo, hi) >= 32768 THEN U16(lo, hi) - UINT16 ELSE U16(lo, hi)
DecodeSeq(p) == U16(p[1], p[2])
DecodeCount(p) == U16(p[3], p[4])
DecodeSamples(p) == [i \in 1..((Len(p) - 4) \div 2) |-> I16(p[3 + 2 * i], p[4 + 2 * i])]

\* the step of loop() that publishes an ECG packet
Published == ecgNotifies' # ecgNotifies

\* C1 (as claimed): the first ECG packet published after a
\* Disconnected->Connected transition of the connection flag carries
\* sequenceNumber 0 and its first sample is generated at sampleIndex 0.
C1_FirstPacketStartsAtZero == firstPacket # <<>> => firstPacket = <<0, 0>>

\* C2 (as claimed): every onConnect that follows a disconnected period gets
\* its reset of sequenceNumber and sampleIndex from loop(): when an iteration
\* has made its new-connection test and the device is connected, no reset is
\* outstanding; and a reset is made only for such a transition.
C2_ResetOncePerConnect ==
  [][/\ (pc = "tick" /\ pc' # "tick" /\ deviceConnected => ~resetDue')
     /\ (resetDue' # resetDue /\ ~resetDue' => resetDue /\ sequenceNumber' = 0)]_vars

\* C3 (as claimed): every onDisconnect that follows a connected period gets
\* its BLEDevice::startAdvertising() from loop(): when an iteration has made
\* its lost-connection test and the device is disconnected, no
\* re-advertisement is outstanding; and the callbacks never advertise.
C3_AdvertiseOncePerDisconnect ==
  [][/\ (pc = "disc" /\ pc' # "disc" /\ ~deviceConnected => ~advertDue')
     /\ (adCalls' # adCalls => pc = "disc" /\ adCalls' = adCalls + 1)]_vars

C5_EmissionOnlyWhenDue ==
  [][Published =>
       /\ pc = "ecg" /\ pc' = "bat"
       /\ deviceConnected /\ deviceConnected'
       /\ Elapsed(now, lastPacketTime) >= PACKET_INTERVAL_MS
       /\ lastPacketTime' = now
       /\ ecgNotifies' = ecgNotifies + 1]_vars

\* a connected tick, after an emission, in which the interval has not yet
\* passed and nothing was published
C5_Witness ==
  /\ pc = "bat" /\ deviceConnected /\ ecgNotifies = 1
  /\ now - lastPacketTime = FineStep

\* C6: onDisconnect, and every step of a tick taken while the device is
\* disconnected, leaves sequenceNumber, sampleIndex and nextRPeakAt unchanged.
C6_CountersFrozenWhileDisconnected ==
  [][~deviceConnected' => UNCHANGED <<sequenceNumber, sampleIndex, nextRPeakAt>>]_vars

\* a tick taken while disconnected, after a session that moved the counters
\* and after the re-advertisement
C6_Witness ==
  /\ ~deviceConnected /\ pc = "tail" /\ adCalls = 2
  /\ sequenceNumber = 1 /\ sampleIndex = SAMPLES_PER_PACKET

\* C7: every packet built by sendECGPacket is 4 + 2*SAMPLES_PER_PACKET bytes
\* long and decodes, little-endian, to the sequence number it was built
\* with, the sample count and the samples in generation order.
C7_PacketRoundTrip ==
  [][Published =>
       /\ Len(ecgChar') = 4 + 2 * SAMPLES_PER_PACKET
       /\ \A i \in 1..Len(ecgChar') : ecgChar'[i] \in 0..255
       /\ DecodeSeq(ecgChar') = sequenceNumber
       /\ DecodeCount(ecgChar') = SAMPLES_PER_PACKET
       /\ DecodeCount(ecgChar') = Len(DecodeSamples(ecgChar'))
       /\ \E wave \in WaveBatches :
            DecodeSamples(ecgChar') =
              [i \in 1..SAMPLES_PER_PACKET |-> mvToADC(wave[i])]]_vars

\* a published packet whose third and fourth samples are 32767 and -32768,
\* with a sequence number above 255
C7_Witness ==
  /\ Len(ecgChar) = 4 + 2 * SAMPLES_PER_PACKET
  /\ DecodeSeq(ecgChar) = UINT16 - 1
  /\ DecodeSamples(ecgChar)[3] = 32767
  /\ DecodeSamples(ecgChar)[4] = -32768
  /\ ecgNotifies = UINT16

C9_PowerLevelInRange ==
  batteryLevel >= BATTERY_FLOOR /\ batteryLevel <= BATTERY_START_LEVEL

\* two power ticks have been published in a session, the second one taken
\* at the floor
C9_Witness == batteryLevel = BATTERY_FLOOR /\ batNotifies = 2 /\ batChar = BATTERY_FLOOR

\* C10: the power level rises only by the console command 'r', which sets
\* it to the start value; it falls only in a power tick, by exactly 1 and
\* only above the floor; a power tick at the floor leaves it unchanged.
C10_PowerLevelSteps ==
  [][/\ batteryLevel' > batteryLevel =>
          pc = "tail" /\ cmd' = "r" /\ batteryLevel' = BATTERY_START_LEVEL
     /\ batteryLevel' < batteryLevel =>
          /\ pc = "bat" /\ PowerTickDue
          /\ batteryLevel > BATTERY_FLOOR /\ batteryLevel' = batteryLevel - 1
     /\ pc = "bat" /\ pc' = "tail" /\ PowerTickDue =>
          batteryLevel' = (IF batteryLevel > BATTERY_FLOOR
                           THEN batteryLevel - 1 ELSE batteryLevel)
     /\ pc = "tail" /\ cmd' # "r" => batteryLevel' = batteryLevel]_vars

\* the console command 'r' has raised a drained power level to the start
\* value
C10_Witness ==
  /\ cmd = "r" /\ batteryLevel = BATTERY_START_LEVEL
  /\ lastBatteryTime > 0 /\ batChar < BATTERY_START_LEVEL

\* the step of loop() that publishes the power level
PowerPublished == batNotifies' # batNotifies

\* C11: at every power tick the power level is published on the power
\* channel if and only if the device is connected at that tick, and the
\* value published is the level after that tick's decrement; nothing else
\* publishes on the power channel, and nothing is published while the device
\* is disconnected.
C11_PowerPublishedIffConnected ==
  [][/\ PowerPublished =>
          /\ pc = "bat" /\ pc' = "tail"
          /\ Elapsed(now, lastBatteryTime) >= BATTERY_DRAIN_INTERVAL_MS
          /\ deviceConnected /\ deviceConnected'
          /\ batNotifies' = batNotifies + 1
          /\ batChar' = batteryLevel'
          /\ batteryLevel' = (IF batteryLevel > BATTERY_FLOOR
                              THEN batteryLevel - 1 ELSE batteryLevel)
     /\ (/\ pc = "bat" /\ pc' = "tail"
         /\ Elapsed(now, lastBatteryTime) >= BATTERY_DRAIN_INTERVAL_MS
         /\ deviceConnected) => PowerPublished
     /\ batChar' # batChar => PowerPublished]_vars

\* a power tick of a session was published, and the next power tick, taken
\* after the disconnect, decremented the level without publishing it
C11_Witness ==
  /\ ~deviceConnected /\ pc = "tail"
  /\ batNotifies = 1 /\ batChar = BATTERY_START_LEVEL - 1
  /\ batteryLevel = BATTERY_START_LEVEL - 2

\* C12: fault mode, activated at arrhythmiaStart and not toggled again, stays
\* active through every tick whose clock is before arrhythmiaStart +
\* ARRHYTHMIA_DURATION_MS and is cleared by the first tick whose clock is at
\* or beyond it: it is cleared only by the console toggle or by its timeout,
\* the timeout always clears it, and at the end of every tick fault mode
\* active implies now - arrhythmiaStart < ARRHYTHMIA_DURATION_MS.
C12_FaultWindow ==
  [][/\ arrhythmiaMode /\ ~arrhythmiaMode' =>
          /\ pc = "tail"
          /\ cmd' = "a" \/ now - arrhythmiaStart >= ARRHYTHMIA_DURATION_MS
     /\ (/\ pc = "tail" /\ pc' = "tick" /\ arrhythmiaMode /\ cmd' # "a"
         /\ now - arrhythmiaStart >= ARRHYTHMIA_DURATION_MS) => ~arrhythmiaMode'
     /\ pc' = "tick" /\ arrhythmiaMode' =>
          /\ now' >= arrhythmiaStart'
          /\ now' - arrhythmiaStart' < ARRHYTHMIA_DURATION_MS]_vars

\* fault mode was activated, was still active at a tick a short advance
\* before the end of its window, and was cleared by the tick taken exactly
\* ARRHYTHMIA_DURATION_MS after the activation
C12_Witness ==
  /\ pc = "tick" /\ ~arrhythmiaMode /\ cmd = ""
  /\ arrhythmiaStart > 0 /\ now - arrhythmiaStart = ARRHYTHMIA_DURATION_MS
  /\ events = 3

\* the step of loop() that reads the button and the console during a fault
\* window that is active and not over at this tick
InFaultWindow ==
  /\ pc = "tail" /\ pc' = "tick" /\ arrhythmiaMode
  /\ now - arrhythmiaStart < ARRHYTHMIA_DURATION_MS

\* C13 (as claimed): the console command 'a' or a button press during an
\* active fault window restarts the window: fault mode stays active and its
\* window begins anew at the time of the toggle.
C13_ToggleRestartsWindow ==
  [][InFaultWindow /\ (cmd' = "a" \/ button') =>
       arrhythmiaMode' /\ arrhythmiaStart' = now]_vars

\* C13 (amended): during an active fault window the console command 'a'
\* deactivates fault mode at once; a button press has no effect, fault mode
\* stays active and its window still ends ARRHYTHMIA_DURATION_MS after the
\* original activation.
C13_ToggleEndsButtonKeepsWindow ==
  [][InFaultWindow =>
       IF cmd' = "a"
       THEN ~arrhythmiaMode' /\ arrhythmiaStart' = now
       ELSE arrhythmiaMode' /\ arrhythmiaStart' = arrhythmiaStart]_vars

\* the button was pressed in a tick a short advance into an active fault
\* window, and the window still counts from the original activation
C13_Witness ==
  /\ pc = "tick" /\ button /\ cmd = "" /\ arrhythmiaMode
  /\ now - arrhythmiaStart = FineStep

\* C14 (as claimed): the indicator, set at a beat boundary with lastLEDTime
\* = millis(), is cleared only by the indicator task of loop() and only when
\* its fixed duration has passed since lastLEDTime; it is never cleared
\* earlier, the tick that set it included.
C14_IndicatorKeptForPulse ==
  [][ledState /\ ~ledState' =>
       pc = "tail" /\ clock - lastLEDTime >= LED_PULSE_MS]_vars

\* C15: after setup and after any sequence of operator-input polls and rate
\* commands '+' and '-', heartRateBPM is within [40, 180] BPM.
C15_HeartRateInRange == heartRateBPM >= BPM_MIN /\ heartRateBPM <= BPM_MAX

\* the command '+' was typed less than 10 BPM below the highest rate and
\* the rate was held at 180 BPM
C15_Witness == cmd = "+" /\ heartRateBPM = BPM_MAX /\ events = 1

\* the interval newRR that sendECGPacket draws at a beat boundary crossed in
\* the current state, with the draws r1 and r2
DrawnRR(r1, r2) ==
  LET b == BeatStep([idx |-> sampleIndex, next |-> 0,
                     led |-> ledState, ledAt |-> lastLEDTime],
                    rrIntervalSamples, arrhythmiaMode, r1, r2, clock)
  IN b.next - b.idx * 100

\* C16: in every state after setup the R-R interval is strictly positive,
\* every interval newRR that a beat boundary can draw in that state (the
\* variability at either end, with the extra term of fault mode) is strictly
\* positive, and every beat boundary crossed sets nextRPeakAt strictly
\* beyond sampleIndex.
C16_IntervalPositive ==
  /\ [](/\ rrIntervalSamples > 0
        /\ \A r1 \in Draws5, r2 \in Draws20 : DrawnRR(r1, r2) > 0)
  /\ [][Published /\ nextRPeakAt' # nextRPeakAt =>
          nextRPeakAt' > sampleIndex' * 100]_vars

\* a beat boundary was crossed in fault mode at the highest rate, and the
\* interval it drew is below four fifths of the nominal one
C16_Witness ==
  /\ arrhythmiaMode /\ heartRateBPM = BPM_MAX /\ ledState
  /\ nextRPeakAt # RRInterval(RateAfter("+", 11, PotBPM(BPM_DEFAULT, PotRest(-1))))
  /\ nextRPeakAt > sampleIndex * 100
  /\ nextRPeakAt < sampleIndex * 100 + rrIntervalSamples - rrIntervalSamples \div 5

\* C17 (as claimed): when a sample step crosses the beat boundary,
\* sendECGPacket stores the interval it drew as the R-R interval and sets
\* nextRPeakAt = idx + that interval, so that afterwards the beat origin of
\* the waveform model, nextRPeakAt - rrIntervalSamples, is the sample index
\* idx at which the boundary was crossed.
C17_BeatOriginAtCrossing ==
  [][Published /\ nextRPeakAt' # nextRPeakAt =>
       \E idx \in (sampleIndex + 1)..(sampleIndex + SAMPLES_PER_PACKET) :
         /\ idx >= nextRPeakAt \div 100
         /\ nextRPeakAt' - rrIntervalSamples' = idx * 100]_vars

\* the sample index at which the sample loop detects the boundary next, the
\* first one at or beyond (uint32_t)next after idx
CrossingIndex(idx, next) == IF next \div 100 > idx THEN next \div 100 ELSE idx + 1

\* C18 (as claimed): the interval realized between two consecutive beat
\* boundary crossings, in samples from the index at which one crossing is
\* detected to the index at which the next one will be, deviates from the
\* nominal interval rrIntervalSamples by at most 5% with fault mode off and
\* by at most 25% with fault mode on.
C18_RealizedIntervalInBound ==
  [][Published /\ nextRPeakAt' # nextRPeakAt =>
       LET first == CrossingIndex(sampleIndex, nextRPeakAt)
           second == CrossingIndex(first, nextRPeakAt')
           bound == IF arrhythmiaMode THEN 25 ELSE 5
       IN Abs((second - first) * 100 - rrIntervalSamples) * 100
            <= bound * rrIntervalSamples]_vars

\* the step of loop() whose operator-input poll is due and which reads no
\* rate command; lastPotValue' is the reading of the poll
PollStep ==
  /\ pc = "tail" /\ pc' = "tick"
  /\ now - lastPotRead >= POT_INTERVAL_MS
  /\ cmd' \notin {"+", "-"}

\* C19: a poll whose reading differs from the previously polled reading by
\* less than 50 counts leaves heartRateBPM and rrIntervalSamples unchanged; a
\* poll whose reading differs by 50 or more, and the very first poll, sets
\* heartRateBPM to 0.9 * old + 0.1 * (40 + reading / 4095 * 140) and
\* rrIntervalSamples to 60 / heartRateBPM * SAMPLE_RATE; no poll changes
\* nextRPeakAt, sampleIndex or sequenceNumber, and no tick without a due
\* poll changes the rate but by a rate command.
C19_PollHysteresis ==
  [][/\ PollStep =>
          /\ IF lastPotValue # -1 /\ lastPotValue' - lastPotValue < 50
                /\ lastPotValue - lastPotValue' < 50
             THEN UNCHANGED <<heartRateBPM, rrIntervalSamples>>
             ELSE /\ 10 * heartRateBPM' <=
                       9 * heartRateBPM + 4000 + (lastPotValue' * 14000) \div 4095
                  /\ 10 * heartRateBPM' + 10 >
                       9 * heartRateBPM + 4000 + (lastPotValue' * 14000) \div 4095
                  /\ rrIntervalSamples' =
                       (60 * SAMPLE_RATE * 10000) \div heartRateBPM'
          /\ UNCHANGED <<nextRPeakAt, sampleIndex, sequenceNumber>>
     /\ (/\ pc = "tail" /\ pc' = "tick" /\ cmd' \notin {"+", "-"}
         /\ now - lastPotRead < POT_INTERVAL_MS) =>
          UNCHANGED <<heartRateBPM, rrIntervalSamples, lastPotValue>>]_vars

\* after the first poll read 0 and set the rate, a later poll read 30 and
\* left the rate alone
C19_Witness ==
  /\ pc = "tick" /\ lastPotValue = 30 /\ now = lastPotRead /\ now > SETUP_DELAY_MS
  /\ heartRateBPM = (9 * BPM_DEFAULT + BPM_MIN) \div 10

\* C20: whenever loop() is between two ticks, sampleIndex is
\* SAMPLES_PER_PACKET times the number of packets emitted since the last
\* reset of the counters and sequenceNumber is that number modulo 65536;
\* each emission advances sampleIndex by exactly SAMPLES_PER_PACKET, and
\* nothing else changes either counter but the reset, which zeroes both.
C20_CountersInStep ==
  /\ [](pc = "tick" =>
          /\ sampleIndex = SAMPLES_PER_PACKET * packetsSinceReset
          /\ sequenceNumber = packetsSinceReset % UINT16
          /\ (sampleIndex \div SAMPLES_PER_PACKET) % UINT16 = sequenceNumber)
  /\ [][/\ Published => sampleIndex' = sampleIndex + SAMPLES_PER_PACKET
        /\ (/\ ~Published
            /\ sampleIndex' # sampleIndex \/ sequenceNumber' # sequenceNumber) =>
             sampleIndex' = 0 /\ sequenceNumber' = 0]_vars

\* 65536 packets into a session: the sequence number has wrapped to 0 and
\* the sample index has not
C20_Witness ==
  /\ pc = "tick" /\ packetsSinceReset = UINT16
  /\ sequenceNumber = 0 /\ sampleIndex = SAMPLES_PER_PACKET * UINT16

\* the next i sample steps of a sendECGPacket(), from the sample clock and
\* beat boundary a with the draws r1 and r2: every step advances the sample
\* clock by one, leaves the boundary strictly ahead of it, and moves the
\* boundary only when it has reached it
RECURSIVE StepsKeepPeakAhead(_, _, _, _)
StepsKeepPeakAhead(i, a, r1, r2) ==
  IF i = 0 THEN TRUE
  ELSE LET b == BeatStep(a, rrIntervalSamples, arrhythmiaMode, r1, r2, clock)
       IN /\ b.idx = a.idx + 1
          /\ b.idx * 100 < b.next
          /\ b.next # a.next => b.idx * 100 + 99 >= a.next
          /\ StepsKeepPeakAhead(i - 1, b, r1, r2)

\* C21: after setup, after every reset of a connection and after every
\* sample step of sendECGPacket the next beat boundary lies strictly ahead
\* of the sample clock, sampleIndex < nextRPeakAt, whatever rate changes and
\* fault-mode toggles were made between ticks; a sample step moves the
\* boundary only when it has reached it, and then to a point ahead of it.
C21_PeakAhead ==
  /\ sampleIndex * 100 < nextRPeakAt
  /\ pc = "ecg" /\ EmissionDue =>
       \A r1 \in Draws5, r2 \in Draws20 :
         StepsKeepPeakAhead(SAMPLES_PER_PACKET,
                            [idx |-> sampleIndex, next |-> nextRPeakAt,
                             led |-> ledState, ledAt |-> lastLEDTime], r1, r2)

\* the operator lowered the rate to 40 BPM between two ticks, and the next
\* packet of the session crossed its first beat boundary
C21_Witness ==
  /\ pc = "tick" /\ heartRateBPM = BPM_MIN /\ lastLEDTime > 0
  /\ packetsSinceReset =
       PacketsBeforeBeat(RRInterval(RateAfter("-", 2, PotBPM(BPM_DEFAULT, PotRest(-1))))) + 1
  /\ nextRPeakAt > sampleIndex * 100 + rrIntervalSamples \div 2

TypeOK ==
  /\ deviceConnected \in BOOLEAN /\ oldDeviceConnected \in BOOLEAN
  /\ sequenceNumber \in 0..(UINT16 - 1)
  /\ batteryLevel \in 0..255
  /\ sampleIndex \in Nat
  /\ pc \in {"tick", "latch", "disc", "ecg", "bat", "tail"}
  /\ now <= clock

====
